---- MODULE Spec2Model ----
(***************************************************************************)
(* Model of src/verifai/scenic_server.py: ParallelScenicServer.run_server, *)
(* ParallelScenicServer._generate_next_sample and the SampleSimulator      *)
(* actors it drives.                                                       *)
(*                                                                         *)
(* The coordinator is one sequential process whose position is pc:         *)
(*   "warmup"  the for-loop of lines 182-187, about to run iteration i     *)
(*   "wait"    blocked in ray.wait(futures), line 189                      *)
(*   "refill"  past the test of line 201, about to run lines 204-210       *)
(*   "done"    run_server has returned results (line 212)                  *)
(*   "crashed" an exception has left run_server                            *)
(* Each SampleSimulator is a ray actor: it runs the calls submitted to it  *)
(* one at a time, in submission order.  A handle (ObjectRef) is "running"  *)
(* until its simulate call ends and "ready" afterwards.                    *)
(***************************************************************************)
EXTENDS Integers, Sequences, FiniteSets, TLC

\* ---------------------------------------------------------------- bounds
MaxWorkers == 2
MaxTarget == 3
\* calls of _generate_next_sample made in a row under GenSpec
MaxGenCalls == 3

\* ------------------------------------------------------------- constants
\* Python's None, for values that are otherwise naturals.
None == -1
\* while i < 2000  (line 149)
RetryCeiling == 2000

\* Scores the monitor can return (line 128-129: 0 when there is no monitor).
Rhos == {0, 1}
\* How many consecutive materializations raise RejectionException from the
\* start of one _generate_next_sample call: under Spec (none, or more than
\* the loop can consume) and under GenSpec.
RejectStreaks == {0, RetryCeiling}
GenStreaks == {0, 1, 2, RetryCeiling - 1, RetryCeiling, RetryCeiling + 1}
\* What the first non-rejected materialization does (lines 162-169).
GenEndings == {"accept", "creation_failure"}
\* What one simulate call does (lines 109-130).
SimOutcomes == {"ok", "creation_failure", "sim_none", "materialize_raises"}

VARIABLES
    total_workers,  \* self.total_workers
    n_iters,        \* self.n_iters
    hasBuckets,     \* ext.sampler.domainSampler.current_sample exists
    pc,             \* coordinator position
    err,            \* exception that left run_server, "none" if none
    i,              \* loop variable of the warmup for-loop
    index,          \* index of the last unpacked result (line 193)
    futures,        \* futures list: handle ids
    samples,        \* samples list
    bucket_values,  \* bucket_values list
    results,        \* results list
    lastValue,      \* self.lastValue
    cursor,         \* number of ext.getSample() draws made so far
    handles,        \* every ObjectRef ever returned by simulate.remote
    harvestLog,     \* handles returned by ray.wait, in order
    updates,        \* calls of externalSampler.update: <<buckets, rho>>
    genCalls,       \* number of _generate_next_sample calls returned
    lastGen         \* summary of the last _generate_next_sample call

vars == <<total_workers, n_iters, hasBuckets, pc, err, i, index, futures,
          samples, bucket_values, results, lastValue, cursor, handles,
          harvestLog, updates, genCalls, lastGen>>

Range(s) == {s[k] : k \in 1..Len(s)}

\* ------------------------------------------------------------- generation
\* while i < 2000
C3Mut_RetryAllowed(k) == k <= RetryCeiling
RetryAllowed(k) == k < RetryCeiling

\* buckets = ext.sampler.domainSampler.current_sample, None if that raises
C15Mut_BucketsOf(draw, hb) == IF hb THEN draw - 1 ELSE None
BucketsOf(draw, hb) == IF hb THEN draw ELSE None

\* ray.get(sim.get_sample.remote(sample)) on attempt number a (1-based):
\* the first `streak` attempts raise RejectionException, the next one
\* returns or raises SimulationCreationError.
C12Mut_Materialize(a, streak, ending) ==
    IF a <= streak \/ ending = "creation_failure" THEN "reject" ELSE ending
Materialize(a, streak, ending) == IF a <= streak THEN "reject" ELSE ending

\* The while-loop of lines 149-174 is left at the first value k of its
\* counter i for which either the loop test fails or the materialization of
\* attempt k + 1 does not raise RejectionException.
ExitsAt(k, streak, ending) ==
    ~RetryAllowed(k) \/ Materialize(k + 1, streak, ending) # "reject"

\* value of i when the loop is left: the number of rejected attempts
Rejections(streak, ending) ==
    CHOOSE k \in 0..(RetryCeiling + 1) :
        /\ ExitsAt(k, streak, ending)
        /\ \A j \in 0..(k - 1) : ~ExitsAt(j, streak, ending)

RejectionsOf == [s \in RejectStreaks \cup GenStreaks, e \in GenEndings |-> Rejections(s, e)]

\* (mutant: one draw before the loop, re-materialized on every attempt)
C17Mut_GenerateNextSample(cur, streak, ending, hb) ==
    LET k == RejectionsOf[streak, ending]
        draw == cur + 1
    IN  IF ~RetryAllowed(k)
        THEN [sample |-> None, buckets |-> None, attempts |-> k,
              rejected |-> k, cursor |-> draw, via |-> "ceiling"]
        ELSE IF Materialize(k + 1, streak, ending) = "accept"
        THEN [sample |-> draw, buckets |-> BucketsOf(draw, hb),
              attempts |-> k + 1, rejected |-> k, cursor |-> draw,
              via |-> "accept"]
        ELSE [sample |-> None, buckets |-> None, attempts |-> k + 1,
              rejected |-> k, cursor |-> draw, via |-> "creation_failure"]

\* _generate_next_sample(), started with the sampler at cursor cur: every
\* attempt draws once (ext.getSample(), line 151), reads the bucket tag of
\* that draw (lines 152-156) and materializes the draw on actor 0.
GenerateNextSample(cur, streak, ending, hb) ==
    LET k == RejectionsOf[streak, ending]
        draw == cur + k + 1
    IN  IF ~RetryAllowed(k)
        THEN [sample |-> None, buckets |-> None, attempts |-> k,
              rejected |-> k, cursor |-> cur + k, via |-> "ceiling"]
        ELSE IF Materialize(k + 1, streak, ending) = "accept"
        THEN [sample |-> draw, buckets |-> BucketsOf(draw, hb),
              attempts |-> k + 1, rejected |-> k, cursor |-> draw,
              via |-> "accept"]
        ELSE [sample |-> None, buckets |-> None, attempts |-> k + 1,
              rejected |-> k, cursor |-> draw, via |-> "creation_failure"]

\* ----------------------------------------------------------------- actors
NoResult == [kind |-> "pending", worker_num |-> None, full_sample |-> None,
             rho |-> None]

\* full_sample = self.sampler.nextSample(sample) in the worker's own context
FullSample(sample, w) == IF sample = None THEN None ELSE sample * 10 + w

\* the value a simulate call leaves in its ObjectRef
C19Mut_SimResult(w, sample, outcome, rho) ==
    CASE outcome = "ok" ->
            [kind |-> "tuple", worker_num |-> 0,
             full_sample |-> FullSample(sample, w), rho |-> rho]
      [] outcome = "creation_failure" ->
            [kind |-> "none", worker_num |-> None, full_sample |-> None,
             rho |-> None]
      [] OTHER ->
            [kind |-> "raised", worker_num |-> None, full_sample |-> None,
             rho |-> None]
C13Mut_SimResult(w, sample, outcome, rho) ==
    CASE outcome = "ok" ->
            [kind |-> "tuple", worker_num |-> w,
             full_sample |-> sample, rho |-> rho]
      [] outcome = "creation_failure" ->
            [kind |-> "none", worker_num |-> None, full_sample |-> None,
             rho |-> None]
      [] OTHER ->
            [kind |-> "raised", worker_num |-> None, full_sample |-> None,
             rho |-> None]
SimResult(w, sample, outcome, rho) ==
    CASE outcome = "ok" ->
            [kind |-> "tuple", worker_num |-> w,
             full_sample |-> FullSample(sample, w), rho |-> rho]
      [] outcome = "creation_failure" ->
            [kind |-> "none", worker_num |-> None, full_sample |-> None,
             rho |-> None]
      [] OTHER ->
            [kind |-> "raised", worker_num |-> None, full_sample |-> None,
             rho |-> None]

\* actor w still has a simulate call that has not ended
WorkerBusy(w) ==
    \E h \in 1..Len(handles) :
        handles[h].worker = w /\ handles[h].status = "running"

\* sim.simulate.remote(next_sample) on actor w
Dispatch(w, sample) ==
    Append(handles, [worker |-> w, sample |-> sample, status |-> "running",
                     result |-> NoResult])

\* ------------------------------------------------------------ coordinator
C1Mut_TargetReached(n, t) == n > t
TargetReached(n, t) == n >= t

C7Mut_ShouldUpdate(b) == TRUE
C16Mut_ShouldUpdate(b) == FALSE
ShouldUpdate(b) == b # None

C10Mut_WarmupDone(k, n) == k > n
C14Mut_WarmupDone(k, n) == k >= n - 1
WarmupDone(k, n) == k >= n

C9Mut_RefillSlot(fs, idx, h) == fs
C11Mut_RefillSlot(fs, idx, h) == [fs EXCEPT ![1] = h]
RefillSlot(fs, idx, h) == [fs EXCEPT ![idx + 1] = h]

Init ==
    /\ total_workers \in 1..MaxWorkers
    /\ n_iters \in 0..MaxTarget
    /\ hasBuckets \in BOOLEAN
    /\ pc = "warmup"
    /\ err = "none"
    /\ i = 0
    /\ index = None
    /\ futures = <<>>
    /\ samples = <<>>
    /\ bucket_values = <<>>
    /\ results = <<>>
    /\ lastValue = None
    /\ cursor = 0
    /\ handles = <<>>
    /\ harvestLog = <<>>
    /\ updates = <<>>
    /\ genCalls = 0
    /\ lastGen = [sample |-> None, buckets |-> None, attempts |-> 0,
                  rejected |-> 0, cursor |-> 0, via |-> "never"]

\* One iteration of the for-loop, lines 182-187.  The get_sample call of the
\* generation runs on actor 0 and waits for whatever actor 0 is running.
WarmupStep ==
    /\ pc = "warmup"
    /\ ~WorkerBusy(0)
    /\ \E streak \in RejectStreaks, ending \in GenEndings :
         LET g == GenerateNextSample(cursor, streak, ending, hasBuckets)
         IN  /\ lastGen' = g
             /\ cursor' = g.cursor
             /\ samples' = Append(samples, g.sample)
             /\ bucket_values' = Append(bucket_values, g.buckets)
             /\ handles' = Dispatch(i, g.sample)
             /\ futures' = Append(futures, Len(handles) + 1)
    /\ genCalls' = genCalls + 1
    /\ i' = i + 1
    /\ pc' = IF WarmupDone(i + 1, total_workers) THEN "wait" ELSE "warmup"
    /\ UNCHANGED <<total_workers, n_iters, hasBuckets, err, index, results,
                   lastValue, harvestLog, updates>>

\* Lines 189-202: ray.wait returns one ready handle of futures, ray.get
\* fetches its value, the value is unpacked, logged and fed back.
Harvest ==
    /\ pc = "wait"
    /\ \E p \in 1..Len(futures) :
         LET h == futures[p]
             r == handles[h].result
         IN  /\ handles[h].status = "ready"
             /\ harvestLog' = Append(harvestLog, h)
             /\ CASE r.kind = "raised" ->
                      /\ pc' = "crashed"
                      /\ err' = "TaskError"
                      /\ UNCHANGED <<index, lastValue, results, updates>>
                  [] r.kind = "none" ->
                      /\ pc' = "crashed"
                      /\ err' = "TypeError"
                      /\ UNCHANGED <<index, lastValue, results, updates>>
                  [] OTHER ->
                      /\ index' = r.worker_num
                      /\ lastValue' = r.rho
                      /\ results' = Append(results, <<r.full_sample, r.rho>>)
                      /\ LET buckets == bucket_values[r.worker_num + 1]
                         IN  IF ShouldUpdate(buckets)
                             THEN /\ updates' = Append(updates, <<buckets, r.rho>>)
                                  /\ \E updateRaises \in BOOLEAN :
                                       IF updateRaises
                                       THEN /\ pc' = "crashed"
                                            /\ err' = "UpdateError"
                                       ELSE /\ pc' = IF TargetReached(Len(results'), n_iters)
                                                     THEN "done" ELSE "refill"
                                            /\ err' = err
                             ELSE /\ updates' = updates
                                  /\ pc' = IF TargetReached(Len(results'), n_iters)
                                           THEN "done" ELSE "refill"
                                  /\ err' = err
    /\ UNCHANGED <<total_workers, n_iters, hasBuckets, i, futures, samples,
                   bucket_values, cursor, handles, genCalls, lastGen>>

\* (mutant: the generator stores the rejection feedback in self.lastValue)
C20Mut_Refill ==
    /\ pc = "refill"
    /\ ~WorkerBusy(0)
    /\ \E streak \in RejectStreaks, ending \in GenEndings :
         LET g == GenerateNextSample(cursor, streak, ending, hasBuckets)
         IN  /\ lastGen' = g
             /\ cursor' = g.cursor
             /\ samples' = [samples EXCEPT ![index + 1] = g.sample]
             /\ bucket_values' = [bucket_values EXCEPT ![index + 1] = g.buckets]
             /\ handles' = Dispatch(index, g.sample)
             /\ futures' = RefillSlot(futures, index, Len(handles) + 1)
             /\ lastValue' = IF g.rejected > 0 THEN 1 ELSE lastValue
    /\ genCalls' = genCalls + 1
    /\ pc' = "wait"
    /\ UNCHANGED <<total_workers, n_iters, hasBuckets, err, i, index, results,
                   harvestLog, updates>>

\* Lines 204-210: generate for the slot that completed and re-dispatch.
Refill ==
    /\ pc = "refill"
    /\ ~WorkerBusy(0)
    /\ \E streak \in RejectStreaks, ending \in GenEndings :
         LET g == GenerateNextSample(cursor, streak, ending, hasBuckets)
         IN  /\ lastGen' = g
             /\ cursor' = g.cursor
             /\ samples' = [samples EXCEPT ![index + 1] = g.sample]
             /\ bucket_values' = [bucket_values EXCEPT ![index + 1] = g.buckets]
             /\ handles' = Dispatch(index, g.sample)
             /\ futures' = RefillSlot(futures, index, Len(handles) + 1)
    /\ genCalls' = genCalls + 1
    /\ pc' = "wait"
    /\ UNCHANGED <<total_workers, n_iters, hasBuckets, err, i, index, results,
                   lastValue, harvestLog, updates>>

\* SampleSimulator.simulate of handle h ends, lines 103-130.  The model
\* follows the actors until run_server is left; what an abandoned call
\* leaves in its handle afterwards is read by nobody.
WorkerComplete(h) ==
    /\ pc \in {"warmup", "wait", "refill"}
    /\ h \in 1..Len(handles)
    /\ handles[h].status = "running"
    /\ \E outcome \in SimOutcomes, rho \in Rhos :
         handles' = [handles EXCEPT
                       ![h].status = "ready",
                       ![h].result = SimResult(handles[h].worker,
                                               handles[h].sample, outcome, rho)]
    /\ UNCHANGED <<total_workers, n_iters, hasBuckets, pc, err, i, index,
                   futures, samples, bucket_values, results, lastValue,
                   cursor, harvestLog, updates, genCalls, lastGen>>

MaxHandles == MaxWorkers + MaxTarget + 1

Next ==
    \/ WarmupStep
    \/ Harvest
    \/ Refill
    \/ \E h \in 1..MaxHandles : WorkerComplete(h)

Spec == Init /\ [][Next]_vars

\* The coordinator thread keeps running and every dispatched trial ends.
FairSpec ==
    /\ Init
    /\ [][Next]_vars
    /\ WF_vars(WarmupStep)
    /\ WF_vars(Harvest)
    /\ WF_vars(Refill)
    /\ \A h \in 1..MaxHandles : WF_vars(WorkerComplete(h))

\* run_server for every configuration of Spec and for 2 workers with a target
\* of 4 trials.
EndToEndInit ==
    /\ \E c \in ((1..MaxWorkers) \X (0..MaxTarget)) \cup {<<2, 4>>} :
          /\ total_workers = c[1]
          /\ n_iters = c[2]
    /\ hasBuckets \in BOOLEAN
    /\ pc = "warmup"
    /\ err = "none"
    /\ i = 0
    /\ index = None
    /\ futures = <<>>
    /\ samples = <<>>
    /\ bucket_values = <<>>
    /\ results = <<>>
    /\ lastValue = None
    /\ cursor = 0
    /\ handles = <<>>
    /\ harvestLog = <<>>
    /\ updates = <<>>
    /\ genCalls = 0
    /\ lastGen = [sample |-> None, buckets |-> None, attempts |-> 0,
                  rejected |-> 0, cursor |-> 0, via |-> "never"]

EndToEndSpec == EndToEndInit /\ [][Next]_vars

\* _generate_next_sample called on its own, MaxGenCalls times in a row, with
\* every rejection streak of GenStreaks.
GenInit ==
    /\ total_workers = 1
    /\ n_iters = 1
    /\ hasBuckets \in BOOLEAN
    /\ pc = "generate"
    /\ err = "none"
    /\ i = 0
    /\ index = None
    /\ futures = <<>>
    /\ samples = <<>>
    /\ bucket_values = <<>>
    /\ results = <<>>
    /\ lastValue \in Rhos \cup {None}
    /\ cursor = 0
    /\ handles = <<>>
    /\ harvestLog = <<>>
    /\ updates = <<>>
    /\ genCalls = 0
    /\ lastGen = [sample |-> None, buckets |-> None, attempts |-> 0,
                  rejected |-> 0, cursor |-> 0, via |-> "never"]

GenCall ==
    /\ pc = "generate"
    /\ genCalls < MaxGenCalls
    /\ \E streak \in GenStreaks, ending \in GenEndings :
         LET g == GenerateNextSample(cursor, streak, ending, hasBuckets)
         IN  /\ lastGen' = g
             /\ cursor' = g.cursor
    /\ genCalls' = genCalls + 1
    /\ UNCHANGED <<total_workers, n_iters, hasBuckets, pc, err, i, index,
                   futures, samples, bucket_values, results, lastValue,
                   handles, harvestLog, updates>>

GenNext == GenCall

GenSpec == GenInit /\ [][GenNext]_vars

\* handles dispatched and not yet returned by ray.wait
Outstanding == {h \in 1..Len(handles) : h \notin Range(harvestLog)}

NoDuplicates(s) == \A k, l \in 1..Len(s) : s[k] = s[l] => k = l

\* ------------------------------------------------------------------ claims

\* C1: for a target count T >= 1 the loop stops with the T-th record: the log
\* never holds more than T records, once it holds T records the coordinator
\* is no longer in the loop, a returned run has made exactly T harvests and
\* logged exactly T records, and from a state with T records on nothing is
\* generated, dispatched or harvested any more, whatever is still running.
C1_StopsAtTarget ==
    [][n_iters >= 1 =>
         /\ Len(results') <= n_iters
         /\ (Len(results') >= n_iters => pc' \in {"done", "crashed"})
         /\ (pc' = "done" => /\ Len(results') = n_iters
                             /\ Len(harvestLog') = n_iters)
         /\ (Len(results) >= n_iters =>
                 /\ Len(handles') = Len(handles)
                 /\ UNCHANGED <<futures, harvestLog, cursor, genCalls>>)]_vars

C1_Witness ==
    /\ pc = "done"
    /\ n_iters >= 1
    /\ Len(results) = n_iters
    /\ total_workers > n_iters
    /\ \E h \in Outstanding : handles[h].status = "running"

\* C2: with a running coordinator and trials that all end, a run with target
\* count T >= 1 eventually returns.
C2_EventuallyDone == <>(pc = "done" \/ n_iters = 0)

\* C3: a call of _generate_next_sample all of whose attempts were rejected
\* made exactly RetryCeiling attempts and returned (None, None).
C3_CeilingExact ==
    (lastGen.via # "never" /\ lastGen.rejected = lastGen.attempts) =>
        /\ lastGen.attempts = RetryCeiling
        /\ lastGen.sample = None
        /\ lastGen.buckets = None
        /\ lastGen.via = "ceiling"
        /\ pc # "crashed"

C3_Witness ==
    /\ lastGen.via = "ceiling"
    /\ lastGen.attempts = RetryCeiling
    /\ lastGen.rejected = RetryCeiling
    /\ genCalls >= 2

\* C4: harvesting the "no outcome" value of a trial whose simulation raised a
\* creation failure never makes run_server fail.
C4_NoOutcomeHarvestedSafely ==
    \A k \in 1..Len(harvestLog) :
        handles[harvestLog[k]].result.kind = "none" => pc # "crashed"

\* C5: simulate is never dispatched with a null candidate.
C5_NeverDispatchNull ==
    \A h \in 1..Len(handles) : handles[h].sample # None

\* C6: the coordinator, about to refill a slot, never has to wait for a trial
\* that is still running on another slot.
C6_RefillNeverWaits == ~(pc = "refill" /\ WorkerBusy(0))

\* C7: update is called only with a non-null bucket tag, at most once per
\* logged trial, and never in a run whose sampler produces no bucket tags.
C7_UpdateOnlyWithTag ==
    /\ \A k \in 1..Len(updates) : updates[k][1] # None
    /\ Len(updates) <= Len(results)
    /\ (~hasBuckets => updates = <<>>)

C7_Witness ==
    /\ pc = "done"
    /\ ~hasBuckets
    /\ n_iters >= 2
    /\ Len(results) = n_iters
    /\ updates = <<>>

\* C8: a failing update call never makes run_server fail.
C8_UpdateFailureSwallowed == ~(pc = "crashed" /\ err = "UpdateError")

\* C9: no handle is returned by ray.wait twice, and whenever the coordinator
\* waits, no handle of futures has been harvested before.
C9_NoHandleHarvestedTwice ==
    /\ NoDuplicates(harvestLog)
    /\ (pc = "wait" => \A p \in 1..Len(futures) :
                          futures[p] \notin Range(harvestLog))

C9_Witness ==
    \E k, l \in 1..Len(harvestLog) :
        /\ k < l
        /\ handles[harvestLog[k]].worker = handles[harvestLog[l]].worker
        /\ Len(results) >= l
        /\ pc # "crashed"

\* C10: the number of handles dispatched and not yet harvested is between 0
\* and total_workers.
C10_OutstandingBounded ==
    /\ Cardinality(Outstanding) >= 0
    /\ Cardinality(Outstanding) <= total_workers

C10_Witness ==
    /\ total_workers >= 2
    /\ Len(harvestLog) >= 2
    /\ pc = "wait"
    /\ Cardinality(Outstanding) = total_workers

\* handles of slot s that are dispatched and not yet harvested
LiveOf(s) == {h \in Outstanding : handles[h].worker = s}

\* C11: the handle-to-slot mapping is a bijection: futures holds every handle
\* once, the handle at position s of futures belongs to slot s, no slot has
\* two live handles and no actor runs two trials at once.
C11_Bijection ==
    /\ NoDuplicates(futures)
    /\ \A p \in 1..Len(futures) : handles[futures[p]].worker = p - 1
    /\ \A s \in 0..(total_workers - 1) : Cardinality(LiveOf(s)) <= 1
    /\ \A h1, h2 \in 1..Len(handles) :
          (/\ handles[h1].status = "running"
           /\ handles[h2].status = "running"
           /\ handles[h1].worker = handles[h2].worker) => h1 = h2
    /\ Cardinality(Outstanding) =
          Cardinality({handles[h].worker : h \in Outstanding})

C11_Witness ==
    /\ total_workers = 2
    /\ pc = "wait"
    /\ futures[2] > 2
    /\ handles[futures[1]].status = "running"
    /\ handles[futures[2]].status = "running"

\* C12: a call of _generate_next_sample whose materialization raises a
\* creation failure after r < RetryCeiling rejections returns (None, None)
\* right after that attempt: r + 1 attempts, r + 1 draws, no retry.
C12_CreationFailureNotRetried ==
    [][\A streak \in GenStreaks :
          (/\ streak < RetryCeiling
           /\ genCalls' = genCalls + 1
           /\ lastGen' = GenerateNextSample(cursor, streak,
                                            "creation_failure", hasBuckets))
          => /\ lastGen'.sample = None
             /\ lastGen'.buckets = None
             /\ lastGen'.via = "creation_failure"
             /\ lastGen'.attempts = streak + 1
             /\ lastGen'.rejected = streak
             /\ lastGen'.rejected < RetryCeiling
             /\ cursor' = cursor + streak + 1]_vars

C12_Witness ==
    /\ lastGen.via = "creation_failure"
    /\ lastGen.sample = None
    /\ lastGen.rejected = 2
    /\ lastGen.attempts = 3
    /\ genCalls >= 2

\* C13: the k-th record of the log is the full sample and the outcome that
\* the k-th harvested handle's simulate call computed from the candidate it
\* was dispatched with, no handle is harvested twice, and a returned run with
\* target T >= 1 has exactly T records; when every worker returns its slot
\* index as outcome, every logged outcome is a slot index.
C13_RecordsMatchTrials ==
    /\ Len(results) <= Len(harvestLog)
    /\ NoDuplicates(harvestLog)
    /\ \A k \in 1..Len(results) :
          LET h == harvestLog[k]
          IN  /\ handles[h].status = "ready"
              /\ handles[h].result.kind = "tuple"
              /\ results[k][1] = FullSample(handles[h].sample, handles[h].worker)
              /\ results[k][2] = handles[h].result.rho
    /\ (pc = "done" /\ n_iters >= 1 => Len(results) = n_iters)
    /\ ((\A h \in 1..Len(handles) :
            handles[h].status = "ready" =>
                handles[h].result.rho = handles[h].worker)
        => \A k \in 1..Len(results) :
              results[k][2] \in 0..(total_workers - 1))

C13_Witness ==
    /\ pc = "done"
    /\ total_workers = 2
    /\ n_iters = 4
    /\ Len(results) = 4
    /\ \A h \in 1..Len(handles) : handles[h].sample # None
    /\ \A k \in 1..4 :
          /\ results[k][2] = handles[harvestLog[k]].worker
          /\ results[k][2] \in {0, 1}
    /\ \E k \in 1..4 : results[k][2] = 0
    /\ \E k \in 1..4 : results[k][2] = 1

\* C14: whenever the coordinator blocks in ray.wait, every slot whose last
\* generation produced a candidate has exactly one outstanding handle, the
\* one at its position of futures, carrying that candidate; when every slot
\* has a candidate, exactly total_workers handles are outstanding.
C14_SaturatedAtWait ==
    pc = "wait" =>
        /\ Len(samples) = total_workers
        /\ Len(futures) = total_workers
        /\ \A s \in 0..(total_workers - 1) :
              (s + 1 <= Len(samples) /\ samples[s + 1] # None) =>
                  /\ s + 1 <= Len(futures)
                  /\ LiveOf(s) = {futures[s + 1]}
                  /\ handles[futures[s + 1]].sample = samples[s + 1]
        /\ ((\A p \in 1..Len(samples) : samples[p] # None)
            => Cardinality(Outstanding) = total_workers)

C14_Witness ==
    /\ pc = "wait"
    /\ total_workers = 2
    /\ Len(results) >= 2
    /\ \A h \in 1..Len(handles) : handles[h].sample # None
    /\ Cardinality(LiveOf(0)) = 1
    /\ Cardinality(LiveOf(1)) = 1

\* the generation call that produced the candidate of handle h also produced
\* a bucket tag (the tag of a draw is named by the draw)
Tagged(h) == hasBuckets /\ handles[h].sample # None

\* the handles whose results were logged, in harvest order, that carry a tag
LoggedWithTag == SelectSeq(SubSeq(harvestLog, 1, Len(results)), Tagged)

\* C15: the calls of update are, in order, one per logged trial that carries
\* a bucket tag, each with the tag of the draw that became that trial's
\* candidate and with the outcome of that trial.
C15_TagOfSameGeneration ==
    /\ Len(updates) = Len(LoggedWithTag)
    /\ \A k \in 1..Len(updates) :
          LET h == LoggedWithTag[k]
          IN  /\ updates[k][1] = handles[h].sample
              /\ updates[k][2] = handles[h].result.rho

C15_Witness ==
    /\ total_workers = 2
    /\ Len(updates) >= 3
    /\ \E k \in 1..Len(updates) : updates[k][1] > 2
    /\ \E k \in 2..Len(updates) :
          handles[LoggedWithTag[k]].worker # handles[LoggedWithTag[k - 1]].worker
    /\ pc = "done"

\* number of logged trials that carry a bucket tag
TaggedCount ==
    Cardinality({k \in 1..Len(results) : Tagged(harvestLog[k])})

\* C16: update is called once for every logged trial that carries a tag, in
\* the coordinator's harvest step only (never in a step of a worker or of the
\* generator), and all due calls have been made when the generator is next
\* invoked and when run_server returns.
C16_UpdateOncePerTaggedTrial ==
    [][/\ (updates' # updates =>
              /\ pc = "wait"
              /\ pc' # "wait"
              /\ handles' = handles
              /\ cursor' = cursor
              /\ genCalls' = genCalls
              /\ Len(results') = Len(results) + 1
              /\ Len(updates') = Len(updates) + 1
              /\ SubSeq(updates', 1, Len(updates)) = updates)
       /\ (genCalls' # genCalls =>
              /\ updates' = updates
              /\ Len(updates) = TaggedCount)
       /\ (pc' = "done" => Len(updates') = TaggedCount')]_vars

C16_Witness ==
    /\ pc = "wait"
    /\ hasBuckets
    /\ genCalls > total_workers
    /\ Len(updates) >= 1
    /\ Len(updates) < Len(results)

\* C17: a call of _generate_next_sample that made k attempts, however it
\* ended, advanced the sampler by exactly k draws, and a candidate it returns
\* is the last of those draws.
C17_OneDrawPerAttempt ==
    [][genCalls' = genCalls + 1 =>
          /\ lastGen'.attempts >= 1
          /\ cursor' = cursor + lastGen'.attempts
          /\ lastGen'.cursor = cursor'
          /\ lastGen'.attempts \in {lastGen'.rejected, lastGen'.rejected + 1}
          /\ (lastGen'.via = "accept" => lastGen'.sample = cursor')]_vars

C17_Witness ==
    /\ genCalls = 3
    /\ lastGen.via = "accept"
    /\ lastGen.attempts = RetryCeiling
    /\ cursor > 2 * RetryCeiling

\* C18: for every target count T >= 0 the log never holds more than T
\* records and no more than T harvests are made.
C18_NeverExceedsTarget ==
    /\ Len(results) <= n_iters
    /\ Len(harvestLog) <= n_iters

\* C19: after a result has been unpacked, index is the position in futures
\* of the handle that ray.wait returned, and the actor at that index, to
\* which the refill dispatches, has no trial running.
C19_IndexIsPosition ==
    (pc \in {"refill", "done"} \/ err = "UpdateError") =>
        /\ Len(harvestLog) >= 1
        /\ index \in 0..(total_workers - 1)
        /\ futures[index + 1] = harvestLog[Len(harvestLog)]
        /\ handles[futures[index + 1]].worker = index
        /\ ~WorkerBusy(index)

C19_Witness ==
    /\ pc = "refill"
    /\ total_workers = 2
    /\ index = 1
    /\ Len(harvestLog) >= 2
    /\ futures[2] > 2
    /\ futures[1] \in Outstanding

\* C20: every generation leaves lastValue unchanged; in warmup it runs with
\* lastValue = None, and in a refill with the outcome of the last harvested
\* trial, which ran on the slot being refilled.
C20_LastValueAtGeneration ==
    [][genCalls' # genCalls =>
          /\ lastValue' = lastValue
          /\ (pc = "warmup" => lastValue = None /\ results = <<>>)
          /\ (pc = "refill" =>
                 LET h == harvestLog[Len(harvestLog)]
                 IN  /\ Len(results) = Len(harvestLog)
                     /\ lastValue = results[Len(results)][2]
                     /\ lastValue = handles[h].result.rho
                     /\ handles[h].worker = index
                     /\ Len(handles') = Len(handles) + 1
                     /\ handles'[Len(handles')].worker = index)]_vars

C20_Witness ==
    /\ pc = "wait"
    /\ total_workers = 2
    /\ genCalls = 4
    /\ Len(results) = 2
    /\ results[1][2] = 1
    /\ results[2][2] = 0
    /\ lastValue = 0
    /\ lastGen.via = "ceiling"

====
